---- MODULE Spec2Model ----
(***************************************************************************)
(* Model of frontend/glideinFrontend.py: the lock-file start-up of         *)
(* iterate(), its pass loop with the first-pass-fatal / later-pass-        *)
(* tolerant policy, iterate_one()'s sizing and publish loop, the teardown  *)
(* (deadvertizeAllWork) and the delivery of SIGINT/SIGTERM/SIGQUIT, which  *)
(* Python turns into a KeyboardInterrupt raised at the statement the       *)
(* process is executing.                                                   *)
(*                                                                         *)
(* Spec     : one frontend process, the Matcher returning every pair of    *)
(*            maps over the glidein names.                                 *)
(* SpecLock : NumProcs frontend processes started on the same log          *)
(*            directory, the Matcher reporting one glidein.                *)
(***************************************************************************)
EXTENDS Integers, FiniteSets, Sequences, TLC

\* ---------------------------------------------------------------- bounds
NumProcs == 2
MaxPasses == 3
LockMaxPasses == 2
MaxSignals == 1
MaxCount == 1
MaxRunning == 1
MaxMaxIdle == 2
MaxReserve == 1

Procs == 1..NumProcs
Main == 1
Names == {"A", "B"}
IdleVals == (0 - 1)..MaxCount
\* a running count is only passed through to the monitor values (line 58):
\* zero and one positive count stand for all of them
RunVals == {0, MaxRunning}

VARIABLES
    pc,                     \* position of each process in iterate / iterate_one
    is_first,               \* iterate's is_first
    exc,                    \* exception being handled or pending in a finally
    pass,                   \* number of passes started
    retracts,               \* deadvertizeAllWork calls made
    sleeps,                 \* time.sleep calls that returned
    first_pass_error,       \* a non-signal error left pass 1
    fd,                     \* the lock-file handle of the process
    logs_open,              \* DayLogFile / DirCleanup constructed
    activity_log,           \* last line written to activity_log
    warning_log,            \* last line written to warning_log
    lock_exists,            \* <log_dir>/glideinWMS.lock exists
    lock_content,           \* 0 = empty file, p = "PID: p ..."
    lock_holder,            \* process holding the flock, 0 = nobody
    max_idle, reserve_idle, \* arguments of iterate
    count_glideins_idle,    \* iterate_one's locals
    count_glideins_running,
    todo,                   \* items the for loop has not visited yet
    cur,                    \* arguments of the advertizeWork call at hand
    calls,                  \* advertizeWork calls begun in the current pass
    failed,                 \* glideins whose advertizeWork raised in this pass
    signals                 \* signals delivered so far

procVars == <<pc, is_first, exc, pass, retracts, sleeps, first_pass_error, fd,
              logs_open, activity_log, warning_log>>
lockVars == <<lock_exists, lock_content, lock_holder>>
argVars == <<max_idle, reserve_idle>>
passVars == <<count_glideins_idle, count_glideins_running, todo, cur, calls, failed>>
vars == <<procVars, lockVars, argVars, passVars, signals>>

\* ---------------------------------------------------------------- helpers
EmptyMap == [k \in {} |-> 0]
NoCall == [name |-> "none", glidename |-> "none", min_idle |-> 0, idle |-> 0, running |-> 0]

\* the maps countMatch can return: one count per glidein name it reports
MatchMaps(vals) == UNION {[D -> vals] : D \in SUBSET Names}

StartupPcs == {"start", "exists", "create", "open", "flock", "trunc", "write"}
PassPcs == {"discover", "query", "match", "loop", "advertize", "adv_warn"}
LoopPcs == {"startup_log", "iter_log", "warn_log", "after_pass", "sleep"} \cup PassPcs
TeardownPcs == {"deadv_log", "deadvertize", "deadv_warn"}
HoldingPcs == {"trunc", "write", "fatal_log", "sig_log", "close"}
                  \cup LoopPcs \cup TeardownPcs

\* line 42: request_name=glidename
RequestName(glidename) == glidename

IterItemsAllKeys(idle_map, running_map) ==
    {[glidename |-> k, idle_jobs |-> IF k \in DOMAIN idle_map THEN idle_map[k] ELSE 0] :
        k \in DOMAIN idle_map \cup DOMAIN running_map}

\* lines 41,44: for glidename in count_glideins_idle.keys(): idle_jobs=count_glideins_idle[glidename]
IterItems(idle_map, running_map) ==
    {[glidename |-> k, idle_jobs |-> idle_map[k]] : k \in DOMAIN idle_map}

GlideinMinIdleFromZero(idle_jobs, reserve, maxidle) ==
    IF idle_jobs >= 0
    THEN IF idle_jobs + reserve > maxidle THEN maxidle ELSE idle_jobs + reserve
    ELSE 0

GlideinMinIdleNoCap(idle_jobs, reserve, maxidle) ==
    IF idle_jobs > 0 THEN idle_jobs + reserve ELSE 0

\* lines 47-53
GlideinMinIdle(idle_jobs, reserve, maxidle) ==
    IF idle_jobs > 0
    THEN IF idle_jobs + reserve > maxidle THEN maxidle ELSE idle_jobs + reserve
    ELSE 0

FlockGrantedAlways(holder) == TRUE

\* line 87: flock(LOCK_EX | LOCK_NB) is granted when nobody holds the lock
FlockGranted(holder) == holder = 0

FirstPassFatalNever(first) == FALSE

FirstPassFatalAlways(first) == TRUE

\* lines 108-109: only the first pass re-raises
FirstPassFatal(first) == first = 1

\* process exit status: 0 when iterate returns, 1 when an exception leaves main
ExitCode(p) == IF exc[p] = "none" THEN 0 ELSE 1

\* ---------------------------------------------------------------- initial states
InitProc(started) ==
    /\ pc = [p \in Procs |-> IF p \in started THEN "start" ELSE "absent"]
    /\ is_first = [p \in Procs |-> 0]
    /\ exc = [p \in Procs |-> "none"]
    /\ pass = [p \in Procs |-> 0]
    /\ retracts = [p \in Procs |-> 0]
    /\ sleeps = [p \in Procs |-> 0]
    /\ first_pass_error = [p \in Procs |-> FALSE]
    /\ fd = [p \in Procs |-> "unopened"]
    /\ logs_open = [p \in Procs |-> FALSE]
    /\ activity_log = [p \in Procs |-> "none"]
    /\ warning_log = [p \in Procs |-> "none"]
    /\ lock_exists \in BOOLEAN
    /\ lock_content = 0
    /\ lock_holder = 0
    /\ count_glideins_idle = [p \in Procs |-> EmptyMap]
    /\ count_glideins_running = [p \in Procs |-> EmptyMap]
    /\ todo = [p \in Procs |-> {}]
    /\ cur = [p \in Procs |-> NoCall]
    /\ calls = [p \in Procs |-> {}]
    /\ failed = [p \in Procs |-> {}]
    /\ signals = 0

Init ==
    /\ InitProc({Main})
    /\ max_idle \in 0..MaxMaxIdle
    /\ reserve_idle \in 0..MaxReserve

InitLock ==
    /\ InitProc(Procs)
    /\ max_idle = MaxMaxIdle
    /\ reserve_idle = MaxReserve

\* ---------------------------------------------------------------- start-up, lines 71-94
\* lines 71-77
Start(p) ==
    /\ pc[p] = "start"
    /\ logs_open' = [logs_open EXCEPT ![p] = TRUE]
    /\ pc' = [pc EXCEPT ![p] = "exists"]
    /\ UNCHANGED <<is_first, exc, pass, retracts, sleeps, first_pass_error, fd,
                   activity_log, warning_log, lockVars, argVars, passVars, signals>>

\* line 81
Exists(p) ==
    /\ pc[p] = "exists"
    /\ pc' = [pc EXCEPT ![p] = IF lock_exists THEN "open" ELSE "create"]
    /\ UNCHANGED <<is_first, exc, pass, retracts, sleeps, first_pass_error, fd, logs_open,
                   activity_log, warning_log, lockVars, argVars, passVars, signals>>

\* lines 82-83: open(lock_file,"w") creates the file or truncates it
Create(p) ==
    /\ pc[p] = "create"
    /\ lock_exists' = TRUE
    /\ lock_content' = 0
    /\ pc' = [pc EXCEPT ![p] = "open"]
    /\ UNCHANGED <<is_first, exc, pass, retracts, sleeps, first_pass_error, fd, logs_open,
                   activity_log, warning_log, lock_holder, argVars, passVars, signals>>

\* line 85
Open(p) ==
    /\ pc[p] = "open"
    /\ lock_exists
    /\ fd' = [fd EXCEPT ![p] = "open"]
    /\ pc' = [pc EXCEPT ![p] = "flock"]
    /\ UNCHANGED <<is_first, exc, pass, retracts, sleeps, first_pass_error, logs_open,
                   activity_log, warning_log, lockVars, argVars, passVars, signals>>

\* lines 86-90
Flock(p) ==
    /\ pc[p] = "flock"
    /\ IF FlockGranted(lock_holder)
       THEN /\ lock_holder' = p
            /\ pc' = [pc EXCEPT ![p] = "trunc"]
            /\ UNCHANGED <<fd, exc>>
       ELSE /\ fd' = [fd EXCEPT ![p] = "closed"]
            /\ exc' = [exc EXCEPT ![p] = "RuntimeError"]
            /\ pc' = [pc EXCEPT ![p] = "done"]
            /\ UNCHANGED lock_holder
    /\ UNCHANGED <<is_first, pass, retracts, sleeps, first_pass_error, logs_open,
                   activity_log, warning_log, lock_exists, lock_content,
                   argVars, passVars, signals>>

\* lines 91-92
Trunc(p) ==
    /\ pc[p] = "trunc"
    /\ lock_content' = 0
    /\ pc' = [pc EXCEPT ![p] = "write"]
    /\ UNCHANGED <<is_first, exc, pass, retracts, sleeps, first_pass_error, fd, logs_open,
                   activity_log, warning_log, lock_exists, lock_holder,
                   argVars, passVars, signals>>

\* lines 93-94
Write(p) ==
    /\ pc[p] = "write"
    /\ lock_content' = p
    /\ pc' = [pc EXCEPT ![p] = "startup_log"]
    /\ UNCHANGED <<is_first, exc, pass, retracts, sleeps, first_pass_error, fd, logs_open,
                   activity_log, warning_log, lock_exists, lock_holder,
                   argVars, passVars, signals>>

\* ---------------------------------------------------------------- exceptions
LeavePass(p) ==
    /\ count_glideins_idle' = [count_glideins_idle EXCEPT ![p] = EmptyMap]
    /\ count_glideins_running' = [count_glideins_running EXCEPT ![p] = EmptyMap]
    /\ todo' = [todo EXCEPT ![p] = {}]
    /\ cur' = [cur EXCEPT ![p] = NoCall]

\* A non-signal exception e leaves iterate_one: lines 107-114 and 121
RaiseInPass(p, e) ==
    /\ exc' = [exc EXCEPT ![p] = e]
    /\ pc' = [pc EXCEPT ![p] = IF FirstPassFatal(is_first[p]) THEN "fatal_log" ELSE "warn_log"]
    /\ first_pass_error' = [first_pass_error EXCEPT ![p] = @ \/ FirstPassFatal(is_first[p])]
    /\ LeavePass(p)

\* ---------------------------------------------------------------- the loop, lines 96-118
\* lines 99-100
StartupLog(p) ==
    /\ pc[p] = "startup_log"
    /\ activity_log' = [activity_log EXCEPT ![p] = "Starting up"]
    /\ is_first' = [is_first EXCEPT ![p] = 1]
    /\ pc' = [pc EXCEPT ![p] = "iter_log"]
    /\ UNCHANGED <<exc, pass, retracts, sleeps, first_pass_error, fd, logs_open,
                   warning_log, lockVars, argVars, passVars, signals>>

\* lines 101-102; maxp caps the unbounded number of passes
IterLog(p, maxp) ==
    /\ pc[p] = "iter_log"
    /\ pass[p] < maxp
    /\ pass' = [pass EXCEPT ![p] = @ + 1]
    /\ activity_log' = [activity_log EXCEPT ![p] = "Iteration"]
    /\ calls' = [calls EXCEPT ![p] = {}]
    /\ failed' = [failed EXCEPT ![p] = {}]
    /\ pc' = [pc EXCEPT ![p] = "discover"]
    /\ UNCHANGED <<is_first, exc, retracts, sleeps, first_pass_error, fd, logs_open,
                   warning_log, lockVars, argVars,
                   count_glideins_idle, count_glideins_running, todo, cur, signals>>

\* line 33: findGlideins returns or raises
Discover(p) ==
    /\ pc[p] = "discover"
    /\ \/ /\ pc' = [pc EXCEPT ![p] = "query"]
          /\ UNCHANGED <<exc, first_pass_error, passVars>>
       \/ /\ RaiseInPass(p, "Error")
          /\ UNCHANGED <<calls, failed>>
    /\ UNCHANGED <<is_first, pass, retracts, sleeps, fd, logs_open, activity_log,
                   warning_log, lockVars, argVars, signals>>

\* lines 34-35: getIdleCondorQ and getRunningCondorQ return or raise
Query(p) ==
    /\ pc[p] = "query"
    /\ \/ /\ pc' = [pc EXCEPT ![p] = "match"]
          /\ UNCHANGED <<exc, first_pass_error, passVars>>
       \/ /\ RaiseInPass(p, "Error")
          /\ UNCHANGED <<calls, failed>>
    /\ UNCHANGED <<is_first, pass, retracts, sleeps, fd, logs_open, activity_log,
                   warning_log, lockVars, argVars, signals>>

\* lines 37-41: the two countMatch calls return maps (or raise) and the loop starts
Match(p, idle_maps, running_maps) ==
    /\ pc[p] = "match"
    /\ activity_log' = [activity_log EXCEPT ![p] = "Match"]
    /\ \/ \E im \in idle_maps, rm \in running_maps :
             /\ count_glideins_idle' = [count_glideins_idle EXCEPT ![p] = im]
             /\ count_glideins_running' = [count_glideins_running EXCEPT ![p] = rm]
             /\ todo' = [todo EXCEPT ![p] = IterItems(im, rm)]
             /\ pc' = [pc EXCEPT ![p] = "loop"]
             /\ UNCHANGED <<exc, first_pass_error, cur, calls, failed>>
       \/ /\ RaiseInPass(p, "Error")
          /\ UNCHANGED <<calls, failed>>
    /\ UNCHANGED <<is_first, pass, retracts, sleeps, fd, logs_open,
                   warning_log, lockVars, argVars, signals>>

\* lines 41-55 for one glidein, or line 62 when the keys are exhausted
Loop(p) ==
    /\ pc[p] = "loop"
    /\ \/ /\ todo[p] = {}
          /\ pc' = [pc EXCEPT ![p] = "after_pass"]
          /\ LeavePass(p)
          /\ UNCHANGED <<exc, first_pass_error, activity_log, calls, failed>>
       \/ \E it \in todo[p] :
             IF it.glidename \in DOMAIN count_glideins_running[p]
             THEN LET min_idle == GlideinMinIdle(it.idle_jobs, reserve_idle, max_idle)
                      running_jobs == count_glideins_running[p][it.glidename]
                  IN /\ cur' = [cur EXCEPT ![p] =
                                   [name |-> RequestName(it.glidename),
                                    glidename |-> it.glidename,
                                    min_idle |-> min_idle,
                                    idle |-> it.idle_jobs,
                                    running |-> running_jobs]]
                     /\ todo' = [todo EXCEPT ![p] = @ \ {it}]
                     /\ activity_log' = [activity_log EXCEPT ![p] = "Advertize"]
                     /\ pc' = [pc EXCEPT ![p] = "advertize"]
                     /\ UNCHANGED <<exc, first_pass_error, count_glideins_idle,
                                    count_glideins_running, calls, failed>>
             ELSE \* line 45: count_glideins_running[glidename] raises KeyError
                  /\ RaiseInPass(p, "KeyError")
                  /\ UNCHANGED <<activity_log, calls, failed>>
    /\ UNCHANGED <<is_first, pass, retracts, sleeps, fd, logs_open,
                   warning_log, lockVars, argVars, signals>>

PublishCaughtNever(e) == FALSE

TeardownCaughtNever(e) == FALSE

\* line 59: the bare except catches every exception, KeyboardInterrupt included
PublishCaught(e) == TRUE

\* line 130: the bare except catches every exception, KeyboardInterrupt included
TeardownCaught(e) == TRUE

\* lines 56-59: advertizeWork returns, or raises into the except clause
Advertize(p) ==
    /\ pc[p] = "advertize"
    /\ calls' = [calls EXCEPT ![p] = @ \cup {cur[p]}]
    /\ \/ /\ pc' = [pc EXCEPT ![p] = "loop"]
          /\ cur' = [cur EXCEPT ![p] = NoCall]
          /\ UNCHANGED <<exc, first_pass_error, failed,
                         count_glideins_idle, count_glideins_running, todo>>
       \/ /\ failed' = [failed EXCEPT ![p] = @ \cup {cur[p].glidename}]
          /\ IF PublishCaught("Error")
             THEN /\ pc' = [pc EXCEPT ![p] = "adv_warn"]
                  /\ UNCHANGED <<exc, first_pass_error, cur,
                                 count_glideins_idle, count_glideins_running, todo>>
             ELSE RaiseInPass(p, "Error")
    /\ UNCHANGED <<is_first, pass, retracts, sleeps, fd, logs_open, activity_log,
                   warning_log, lockVars, argVars, signals>>

\* line 60
AdvWarn(p) ==
    /\ pc[p] = "adv_warn"
    /\ warning_log' = [warning_log EXCEPT ![p] = "Advertize failed"]
    /\ cur' = [cur EXCEPT ![p] = NoCall]
    /\ pc' = [pc EXCEPT ![p] = "loop"]
    /\ UNCHANGED <<is_first, exc, pass, retracts, sleeps, first_pass_error, fd, logs_open,
                   activity_log, lockVars, argVars, count_glideins_idle,
                   count_glideins_running, todo, calls, failed, signals>>

AfterWarnRetry == "iter_log"

\* lines 110-116: after the warning the loop body goes on at line 116
AfterWarn == "after_pass"

\* lines 110-114: a later pass's error is only a warning
WarnLog(p) ==
    /\ pc[p] = "warn_log"
    /\ warning_log' = [warning_log EXCEPT ![p] = "Exception"]
    /\ exc' = [exc EXCEPT ![p] = "none"]
    /\ pc' = [pc EXCEPT ![p] = AfterWarn]
    /\ UNCHANGED <<is_first, pass, retracts, sleeps, first_pass_error, fd, logs_open,
                   activity_log, lockVars, argVars, passVars, signals>>

\* lines 116-117
AfterPass(p) ==
    /\ pc[p] = "after_pass"
    /\ is_first' = [is_first EXCEPT ![p] = 0]
    /\ activity_log' = [activity_log EXCEPT ![p] = "Sleep"]
    /\ pc' = [pc EXCEPT ![p] = "sleep"]
    /\ UNCHANGED <<exc, pass, retracts, sleeps, first_pass_error, fd, logs_open,
                   warning_log, lockVars, argVars, passVars, signals>>

\* line 118
Sleep(p) ==
    /\ pc[p] = "sleep"
    /\ sleeps' = [sleeps EXCEPT ![p] = @ + 1]
    /\ pc' = [pc EXCEPT ![p] = "iter_log"]
    /\ UNCHANGED <<is_first, exc, pass, retracts, first_pass_error, fd, logs_open,
                   activity_log, warning_log, lockVars, argVars, passVars, signals>>

\* ---------------------------------------------------------------- teardown, lines 119-136
\* lines 121-125: the first pass's error is logged and re-raised
FatalLog(p) ==
    /\ pc[p] = "fatal_log"
    /\ warning_log' = [warning_log EXCEPT ![p] = "Exception"]
    /\ pc' = [pc EXCEPT ![p] = "deadv_log"]
    /\ UNCHANGED <<is_first, exc, pass, retracts, sleeps, first_pass_error, fd, logs_open,
                   activity_log, lockVars, argVars, passVars, signals>>

\* lines 119-120: the KeyboardInterrupt is caught and the try block left normally
SigLog(p) ==
    /\ pc[p] = "sig_log"
    /\ activity_log' = [activity_log EXCEPT ![p] = "Received signal...exit"]
    /\ pc' = [pc EXCEPT ![p] = "deadv_log"]
    /\ UNCHANGED <<is_first, exc, pass, retracts, sleeps, first_pass_error, fd, logs_open,
                   warning_log, lockVars, argVars, passVars, signals>>

\* line 128
DeadvLog(p) ==
    /\ pc[p] = "deadv_log"
    /\ activity_log' = [activity_log EXCEPT ![p] = "Deadvertize my ads"]
    /\ pc' = [pc EXCEPT ![p] = "deadvertize"]
    /\ UNCHANGED <<is_first, exc, pass, retracts, sleeps, first_pass_error, fd, logs_open,
                   warning_log, lockVars, argVars, passVars, signals>>

AfterTeardownLoop == "after_pass"

\* lines 126-136: the teardown is outside the while loop; the outer finally follows it
AfterTeardown == "close"

\* lines 129-130: deadvertizeAllWork returns, or raises into the except clause
Deadvertize(p) ==
    /\ pc[p] = "deadvertize"
    /\ retracts' = [retracts EXCEPT ![p] = @ + 1]
    /\ \/ /\ pc' = [pc EXCEPT ![p] = AfterTeardown]
          /\ UNCHANGED exc
       \/ IF TeardownCaught("TeardownError")
          THEN /\ pc' = [pc EXCEPT ![p] = "deadv_warn"]
               /\ UNCHANGED exc
          ELSE /\ pc' = [pc EXCEPT ![p] = "close"]
               /\ exc' = [exc EXCEPT ![p] = "TeardownError"]
    /\ UNCHANGED <<is_first, pass, sleeps, first_pass_error, fd, logs_open, activity_log,
                   warning_log, lockVars, argVars, passVars, signals>>

\* lines 131-134
DeadvWarn(p) ==
    /\ pc[p] = "deadv_warn"
    /\ warning_log' = [warning_log EXCEPT ![p] = "Failed to deadvertize my ads"]
    /\ pc' = [pc EXCEPT ![p] = AfterTeardown]
    /\ UNCHANGED <<is_first, exc, pass, retracts, sleeps, first_pass_error, fd, logs_open,
                   activity_log, lockVars, argVars, passVars, signals>>

\* lines 135-136: fd.close() drops the flock; a pending exception then leaves
\* iterate and main, otherwise iterate returns
Close(p) ==
    /\ pc[p] = "close"
    /\ fd' = [fd EXCEPT ![p] = "closed"]
    /\ lock_holder' = IF lock_holder = p THEN 0 ELSE lock_holder
    /\ pc' = [pc EXCEPT ![p] = "done"]
    /\ UNCHANGED <<is_first, exc, pass, retracts, sleeps, first_pass_error, logs_open,
                   activity_log, warning_log, lock_exists, lock_content,
                   argVars, passVars, signals>>

\* ---------------------------------------------------------------- signals, lines 154-157
\* SIGINT, SIGTERM and SIGQUIT share Python's default SIGINT handler, which
\* raises KeyboardInterrupt at the statement the process is executing; the
\* innermost enclosing handler of that statement decides what happens.
SignalKinds == {"SIGINT", "SIGTERM", "SIGQUIT"}

\* Python's handler of SIGINT, which raises KeyboardInterrupt
IntHandler == "default_int_handler"

HandlerQuitDefault(sig) == IF sig = "SIGQUIT" THEN "SIG_DFL" ELSE IntHandler

\* lines 155-156: SIGTERM and SIGQUIT are given the handler of SIGINT
Handler(sig) ==
    CASE sig = "SIGINT" -> IntHandler
      [] sig = "SIGTERM" -> IntHandler
      [] sig = "SIGQUIT" -> IntHandler

SignalLeavesLoopFirstOnly(first) == first = 1

\* lines 105-106: a KeyboardInterrupt out of iterate_one is re-raised on every pass
SignalLeavesLoop(first) == TRUE

\* KeyboardInterrupt raised at the statement process p is executing
Interrupt(p) ==
    /\ \/ \* lines 71-94: outside every try block, the interrupt ends the process
          /\ pc[p] \in StartupPcs
          /\ pc' = [pc EXCEPT ![p] = "done"]
          /\ exc' = [exc EXCEPT ![p] = "KeyboardInterrupt"]
          /\ fd' = [fd EXCEPT ![p] = IF @ = "open" THEN "released" ELSE @]
          /\ lock_holder' = IF lock_holder = p THEN 0 ELSE lock_holder
          /\ UNCHANGED <<retracts, passVars>>
       \/ \* lines 99-118 outside the publish try: lines 105-106, then 119
          /\ pc[p] \in LoopPcs \ {"advertize"}
          /\ LET as_error == pc[p] \in PassPcs /\ ~SignalLeavesLoop(is_first[p])
             IN /\ pc' = [pc EXCEPT ![p] = IF as_error THEN "warn_log" ELSE "sig_log"]
                /\ exc' = [exc EXCEPT ![p] = IF as_error THEN "KeyboardInterrupt" ELSE "none"]
          /\ LeavePass(p)
          /\ UNCHANGED <<fd, lock_holder, retracts, calls, failed>>
       \/ \* lines 57-58: inside the publish try, line 59 decides
          /\ pc[p] = "advertize"
          /\ \E made \in BOOLEAN :
                calls' = [calls EXCEPT ![p] = IF made THEN @ \cup {cur[p]} ELSE @]
          /\ IF PublishCaught("KeyboardInterrupt")
             THEN /\ pc' = [pc EXCEPT ![p] = "adv_warn"]
                  /\ failed' = [failed EXCEPT ![p] = @ \cup {cur[p].glidename}]
                  /\ UNCHANGED <<exc, count_glideins_idle, count_glideins_running,
                                 todo, cur>>
             ELSE /\ pc' = [pc EXCEPT ![p] = "sig_log"]
                  /\ LeavePass(p)
                  /\ UNCHANGED <<exc, failed>>
          /\ UNCHANGED <<fd, lock_holder, retracts>>
       \/ \* lines 120, 122-124, 131-134: inside an except clause, the interrupt
          \* replaces what was pending and the enclosing finally runs
          /\ pc[p] \in {"sig_log", "fatal_log", "deadv_warn"}
          /\ pc' = [pc EXCEPT ![p] = IF @ = "deadv_warn" THEN "close" ELSE "deadv_log"]
          /\ exc' = [exc EXCEPT ![p] = "KeyboardInterrupt"]
          /\ UNCHANGED <<fd, lock_holder, retracts, passVars>>
       \/ \* line 128: inside the teardown try, line 130 decides
          /\ pc[p] = "deadv_log"
          /\ IF TeardownCaught("KeyboardInterrupt")
             THEN /\ pc' = [pc EXCEPT ![p] = "deadv_warn"]
                  /\ UNCHANGED exc
             ELSE /\ pc' = [pc EXCEPT ![p] = "close"]
                  /\ exc' = [exc EXCEPT ![p] = "KeyboardInterrupt"]
          /\ UNCHANGED <<fd, lock_holder, retracts, passVars>>
       \/ \* line 129: before or during deadvertizeAllWork, line 130 decides
          /\ pc[p] = "deadvertize"
          /\ \E made \in BOOLEAN :
                retracts' = [retracts EXCEPT ![p] = IF made THEN @ + 1 ELSE @]
          /\ IF TeardownCaught("KeyboardInterrupt")
             THEN /\ pc' = [pc EXCEPT ![p] = "deadv_warn"]
                  /\ UNCHANGED exc
             ELSE /\ pc' = [pc EXCEPT ![p] = "close"]
                  /\ exc' = [exc EXCEPT ![p] = "KeyboardInterrupt"]
          /\ UNCHANGED <<fd, lock_holder, passVars>>
       \/ \* line 136: inside the outer finally, the interrupt ends the process
          /\ pc[p] = "close"
          /\ pc' = [pc EXCEPT ![p] = "done"]
          /\ exc' = [exc EXCEPT ![p] = "KeyboardInterrupt"]
          /\ fd' = [fd EXCEPT ![p] = "released"]
          /\ lock_holder' = IF lock_holder = p THEN 0 ELSE lock_holder
          /\ UNCHANGED <<retracts, passVars>>
    /\ UNCHANGED <<is_first, pass, sleeps, first_pass_error, logs_open, activity_log,
                   warning_log, lock_exists, lock_content, argVars>>

\* a signal left at its default action ends the process at once
Kill(p) ==
    /\ pc' = [pc EXCEPT ![p] = "done"]
    /\ exc' = [exc EXCEPT ![p] = "Killed"]
    /\ fd' = [fd EXCEPT ![p] = IF @ = "open" THEN "released" ELSE @]
    /\ lock_holder' = IF lock_holder = p THEN 0 ELSE lock_holder
    /\ UNCHANGED <<is_first, pass, retracts, sleeps, first_pass_error, logs_open,
                   activity_log, warning_log, lock_exists, lock_content, argVars,
                   passVars>>

\* signal sig is delivered to process p, which is running
Deliver(p, sig) ==
    /\ pc[p] \notin {"absent", "done"}
    /\ signals' = signals + 1
    /\ IF Handler(sig) = IntHandler THEN Interrupt(p) ELSE Kill(p)

\* maxs caps the number of signals delivered
Signal(p, maxs) ==
    /\ signals < maxs
    /\ \E sig \in SignalKinds : Deliver(p, sig)

\* ---------------------------------------------------------------- specifications
\* what the Matcher reports in SpecLock: the one glidein, once
OneGlidein == {[k \in {"A"} |-> 1]}

Step(p, maxp, maxs, idle_maps, running_maps) ==
    \/ Start(p)
    \/ Exists(p)
    \/ Create(p)
    \/ Open(p)
    \/ Flock(p)
    \/ Trunc(p)
    \/ Write(p)
    \/ StartupLog(p)
    \/ IterLog(p, maxp)
    \/ Discover(p)
    \/ Query(p)
    \/ Match(p, idle_maps, running_maps)
    \/ Loop(p)
    \/ Advertize(p)
    \/ AdvWarn(p)
    \/ WarnLog(p)
    \/ AfterPass(p)
    \/ Sleep(p)
    \/ FatalLog(p)
    \/ SigLog(p)
    \/ DeadvLog(p)
    \/ Deadvertize(p)
    \/ DeadvWarn(p)
    \/ Close(p)
    \/ Signal(p, maxs)

Next == \E p \in Procs : Step(p, MaxPasses, MaxSignals, MatchMaps(IdleVals), MatchMaps(RunVals))

NextLock == \E p \in Procs : Step(p, LockMaxPasses, MaxSignals, OneGlidein, OneGlidein)

Spec == Init /\ [][Next]_vars

SpecLock == InitLock /\ [][NextLock]_vars

\* ---------------------------------------------------------------- properties
Min(a, b) == IF a < b THEN a ELSE b

CallNames(p) == {c.glidename : c \in calls[p]}
TodoNames(p) == {it.glidename : it \in todo[p]}
InPublishLoop(p) == pc[p] \in {"loop", "advertize", "adv_warn"}
\* the advertizeWork calls of the pass, the one about to be made included
Requests(p) == calls[p] \cup (IF pc[p] \in {"advertize", "adv_warn"} THEN {cur[p]} ELSE {})
\* a step of process p that is not the delivery of a signal
Moves(p) == pc'[p] # pc[p] /\ signals' = signals
\* pass n of p raises a non-signal error out of iterate_one
PassRaises(p) ==
    /\ Moves(p)
    /\ pc[p] \in PassPcs
    /\ exc[p] = "none"
    /\ exc'[p] \in {"Error", "KeyError"}

C1_Step ==
    \A p \in Procs :
        /\ PassRaises(p) /\ pass[p] = 1 =>
              pc'[p] = "fatal_log" /\ first_pass_error'[p]
        /\ PassRaises(p) /\ pass[p] >= 2 =>
              pc'[p] = "warn_log" /\ ~first_pass_error'[p]
        /\ Moves(p) /\ pc[p] = "fatal_log" =>
              pc'[p] = "deadv_log" /\ exc'[p] = exc[p] /\ warning_log'[p] = "Exception"
        /\ Moves(p) /\ pc[p] = "warn_log" =>
              pc'[p] = "after_pass" /\ exc'[p] = "none" /\ warning_log'[p] = "Exception"
        /\ Moves(p) /\ pc[p] = "after_pass" => pc'[p] = "sleep"
        /\ Moves(p) /\ pc[p] = "sleep" => pc'[p] = "iter_log"
        /\ Moves(p) /\ pc[p] = "iter_log" => pc'[p] = "discover" /\ pass'[p] = pass[p] + 1

C1_Inv ==
    \A p \in Procs :
        /\ first_pass_error[p] => pass[p] = 1 /\ pc[p] \notin LoopPcs
        /\ first_pass_error[p] /\ pc[p] = "done" => ExitCode(p) = 1
        /\ first_pass_error[p] /\ pc[p] = "done" /\ signals = 0 =>
              retracts[p] = 1 /\ exc[p] \in {"Error", "KeyError"} /\ fd[p] = "closed"

\* C1: a non-signal error raised by pass 1 leaves the loop, is logged, stays
\* pending through the teardown and leaves the process with a non-zero exit
\* (with no signal delivered: after exactly one retract-all, as that same
\* error); the same error raised by a pass n >= 2 is logged as a warning, the
\* process goes on to the sleep and from there to pass n+1.
C1_FirstPassFatalLaterTolerated == []C1_Inv /\ [][C1_Step]_vars

C1_Witness ==
    /\ pc[Main] = "discover"
    /\ pass[Main] = 3
    /\ warning_log[Main] = "Exception"
    /\ signals = 0

C1_WitnessFatal ==
    /\ pc[Main] = "done"
    /\ first_pass_error[Main]
    /\ retracts[Main] = 1
    /\ exc[Main] = "Error"
    /\ signals = 0

\* C2: every run that started a pass and has terminated made exactly one
\* deadvertizeAllWork call.
C2_RetractExactlyOnce ==
    \A p \in Procs : pc[p] = "done" /\ pass[p] >= 1 => retracts[p] = 1

\* C3: a signal delivered anywhere between "Starting up" and the end of the
\* sleep is taken to the graceful exit at once: the next position is the
\* "Received signal...exit" handler and no exception is pending.
C3_SignalIsGraceful ==
    [][\A p \in Procs :
          signals' = signals + 1 /\ pc[p] \in LoopPcs /\ pc'[p] # pc[p] =>
              pc'[p] = "sig_log" /\ exc'[p] = "none"]_vars

\* C4: while a process holds the lock and its record is in the lock file, no
\* step changes the content of the file.
C4_HolderRecordUntouched ==
    [][\A p \in Procs :
          lock_holder = p /\ lock_content = p /\ lock_holder' = p =>
              lock_content' = p]_vars

\* C5: at most one process is past the flock and before the close of its
\* lock handle.
C5_SingleHolder ==
    Cardinality({p \in Procs : pc[p] \in HoldingPcs}) <= 1

C5_Witness ==
    \E p, q \in Procs :
        /\ pc[p] \in LoopPcs
        /\ lock_holder = p
        /\ pc[q] = "done"
        /\ exc[q] = "RuntimeError"

C6_Step ==
    \A p \in Procs :
        /\ Moves(p) /\ pc[p] = "advertize" =>
              /\ pc'[p] \in {"loop", "adv_warn"}
              /\ todo'[p] = todo[p]
              /\ exc'[p] = "none"
              /\ first_pass_error'[p] = first_pass_error[p]
              /\ cur[p] \in calls'[p]
        /\ Moves(p) /\ pc[p] = "adv_warn" =>
              /\ pc'[p] = "loop"
              /\ todo'[p] = todo[p]
              /\ warning_log'[p] = "Advertize failed"
        /\ Moves(p) /\ pc[p] = "loop" /\ todo[p] = {} => pc'[p] = "after_pass"

C6_Inv ==
    \A p \in Procs :
        InPublishLoop(p) =>
            LET here == IF pc[p] = "advertize" THEN {cur[p].glidename} ELSE {}
            IN /\ exc[p] = "none"
               /\ failed[p] \subseteq DOMAIN count_glideins_idle[p]
               /\ CallNames(p) \cup failed[p] \cup TodoNames(p) \cup here
                     = DOMAIN count_glideins_idle[p]
               /\ signals = 0 =>
                     CallNames(p) \cup TodoNames(p) \cup here
                         = DOMAIN count_glideins_idle[p]

C7_MinIdleAndMonitors ==
    \A p \in Procs : \A c \in Requests(p) :
        /\ c.idle > 0 => c.min_idle = Min(c.idle + reserve_idle, max_idle)
        /\ c.idle = 0 => c.min_idle = 0
        /\ InPublishLoop(p) =>
              /\ c.glidename \in DOMAIN count_glideins_idle[p]
              /\ c.glidename \in DOMAIN count_glideins_running[p]
              /\ c.idle = count_glideins_idle[p][c.glidename]
              /\ c.running = count_glideins_running[p][c.glidename]

C7_Witness ==
    \E c, d \in calls[Main] :
        /\ c.idle > 0 /\ c.idle + reserve_idle <= max_idle
        /\ reserve_idle > 0
        /\ c.min_idle = c.idle + reserve_idle
        /\ d.idle = 0 /\ d.running > 0 /\ d.min_idle = 0

\* C8: a key of the idle-match map that the running-match map lacks is
\* published with Running = 0: the loop's step for any key ends in the
\* advertizeWork call, never in an exception.
C8_AbsentRunningIsZero ==
    [][\A p \in Procs :
          Moves(p) /\ pc[p] = "loop" /\ todo[p] # {} =>
              /\ pc'[p] = "advertize"
              /\ cur'[p].glidename \notin DOMAIN count_glideins_running[p] =>
                    cur'[p].running = 0]_vars

\* C9: during the publish loop every glidein name given to advertizeWork is
\* a key of the idle-match map.
C9_OnlyIdleKeysPublished ==
    \A p \in Procs :
        InPublishLoop(p) =>
            {c.glidename : c \in Requests(p)} \subseteq DOMAIN count_glideins_idle[p]

C9_Witness ==
    /\ pc[Main] = "loop"
    /\ todo[Main] = {}
    /\ CallNames(Main) = {"A"}
    /\ DOMAIN count_glideins_idle[Main] = {"A"}
    /\ DOMAIN count_glideins_running[Main] = {"A", "B"}

\* C10: every advertizeWork call carries 0 <= min_idle <= max_idle.
C10_MinIdleInRange ==
    \A p \in Procs : \A c \in Requests(p) :
        0 <= c.min_idle /\ c.min_idle <= max_idle

C10_Witness ==
    \E c, d \in calls[Main] :
        /\ c.idle > 0 /\ c.idle + reserve_idle > max_idle /\ c.min_idle = max_idle
        /\ d.idle < 0 /\ d.min_idle = 0

C11_Step ==
    \A p \in Procs :
        /\ Moves(p) /\ pc[p] = "flock" /\ lock_holder # 0 =>
              pc'[p] = "done" /\ exc'[p] = "RuntimeError" /\ ExitCode(p)' = 1
        /\ Moves(p) /\ pc[p] = "sig_log" => pc'[p] = "deadv_log" /\ exc'[p] = "none"
        /\ Moves(p) /\ pc[p] \in TeardownPcs => exc'[p] = exc[p]
        /\ Moves(p) /\ pc[p] = "close" =>
              pc'[p] = "done" /\ ExitCode(p)' = (IF exc[p] = "none" THEN 0 ELSE 1)
        /\ PassRaises(p) /\ pass[p] >= 2 => pc'[p] \in LoopPcs

C11_Inv ==
    \A p \in Procs :
        pc[p] = "done" =>
            /\ exc[p] = "RuntimeError" => pass[p] = 0 /\ retracts[p] = 0
            /\ exc[p] \in {"Error", "KeyError"} => pass[p] = 1 /\ first_pass_error[p]
            /\ first_pass_error[p] => ExitCode(p) = 1
            /\ ExitCode(p) = 0 =>
                  /\ signals >= 1
                  /\ fd[p] = "closed"

\* C11: a process that finds the lock held ends with the already-running
\* error (exit 1); a first-pass error ends the process with exit 1; the
\* "Received signal...exit" handler leaves nothing pending, the teardown and
\* the close keep what is pending, so a signal-triggered shutdown ends with
\* exit 0; an error of a pass n >= 2 keeps the process in the loop, and no
\* process ends with a pass error unless it was raised by pass 1.
C11_ExitOutcome == []C11_Inv /\ [][C11_Step]_vars

C11_Witness ==
    \E p, q \in Procs :
        /\ pc[p] = "done" /\ ExitCode(p) = 0
        /\ pass[p] = 2 /\ warning_log[p] = "Exception"
        /\ pc[q] = "done" /\ exc[q] = "RuntimeError" /\ ExitCode(q) = 1

\* C12: a process that failed on lock contention has constructed no log
\* collaborator and has created or truncated no file.
C12_ContentionBeforeSideEffects ==
    \A p \in Procs : pc[p] = "done" /\ exc[p] = "RuntimeError" => ~logs_open[p]

\* a signal is delivered to process p
Signalled(p) == signals' = signals + 1 /\ pc'[p] # pc[p]

\* C13 as stated: a signal delivered while keys of the pass are still to be
\* visited leaves the process in the pass with those keys still to visit.
C13_NoMidPassCancellation ==
    [][\A p \in Procs :
          Signalled(p) /\ pc[p] \in PassPcs /\ todo[p] # {} =>
              pc'[p] \in PassPcs /\ todo'[p] = todo[p]]_vars

C13_Step ==
    \A p \in Procs :
        Signalled(p) /\ pc[p] \in PassPcs \ {"advertize"} =>
            /\ pc'[p] = "sig_log"
            /\ exc'[p] = "none"
            /\ todo'[p] = {}
            /\ calls'[p] = calls[p]

C13_Inv ==
    \A p \in Procs :
        pc[p] \in {"sig_log", "fatal_log", "close", "done"} \cup TeardownPcs =>
            todo[p] = {} /\ cur[p] = NoCall

\* C13 amended: a signal delivered during a pass, anywhere but inside an
\* advertizeWork call, ends the pass at that statement: the keys not yet
\* visited get no publish call, the next position is the "Received
\* signal...exit" handler, and no pass is in flight during the teardown.
C13_MidPassCancellation == []C13_Inv /\ [][C13_Step]_vars

C13_Witness ==
    /\ pc[Main] = "sig_log"
    /\ pass[Main] = 2
    /\ activity_log[Main] = "Advertize"
    /\ Cardinality(calls[Main]) = 1
    /\ failed[Main] = {}

C14_Step ==
    \A p \in Procs :
        /\ Moves(p) /\ pc[p] = "deadvertize" =>
              /\ pc'[p] \in {"deadv_warn", "close"}
              /\ exc'[p] = exc[p]
              /\ retracts'[p] = retracts[p] + 1
        /\ Moves(p) /\ pc[p] = "deadv_warn" =>
              /\ pc'[p] = "close"
              /\ exc'[p] = exc[p]
              /\ warning_log'[p] = "Failed to deadvertize my ads"
        /\ Moves(p) /\ pc[p] = "close" =>
              /\ pc'[p] = "done"
              /\ exc'[p] = exc[p]
              /\ fd'[p] = "closed"
              /\ lock_holder' # p

C14_Inv ==
    \A p \in Procs :
        /\ exc[p] # "TeardownError"
        /\ pc[p] = "done" /\ warning_log[p] = "Failed to deadvertize my ads" /\ signals = 0 =>
              /\ first_pass_error[p]
              /\ exc[p] \in {"Error", "KeyError"}
              /\ retracts[p] = 1
              /\ fd[p] = "closed"

\* C14: a deadvertizeAllWork call that raises goes to the warning "Failed to
\* deadvertize my ads" and on to the close of the lock handle with whatever
\* was pending before the call still pending: nothing on the graceful path,
\* the first-pass error on the fatal path; the teardown's own error never
\* leaves iterate.
C14_TeardownFailureSwallowed == []C14_Inv /\ [][C14_Step]_vars

C14_Witness ==
    /\ pc[Main] = "done"
    /\ warning_log[Main] = "Failed to deadvertize my ads"
    /\ retracts[Main] = 1
    /\ exc[Main] = "KeyError"
    /\ fd[Main] = "closed"
    /\ signals = 0

C14_WitnessGraceful ==
    /\ pc[Main] = "done"
    /\ warning_log[Main] = "Failed to deadvertize my ads"
    /\ activity_log[Main] = "Deadvertize my ads"
    /\ retracts[Main] = 1
    /\ ExitCode(Main) = 0
    /\ fd[Main] = "closed"

C15_Step ==
    \A p \in Procs :
        /\ pass'[p] # pass[p] =>
              /\ pass'[p] = pass[p] + 1
              /\ pc[p] = "iter_log"
              /\ sleeps[p] = pass[p]
              /\ todo[p] = {} /\ cur[p] = NoCall
        /\ sleeps'[p] # sleeps[p] =>
              /\ sleeps'[p] = sleeps[p] + 1
              /\ pc[p] = "sleep"
              /\ pc'[p] = "iter_log"
              /\ sleeps'[p] = pass[p]
        /\ Moves(p) /\ pc[p] = "warn_log" => pc'[p] = "after_pass"
        /\ Moves(p) /\ pc[p] = "after_pass" => pc'[p] = "sleep"

C15_Inv ==
    \A p \in Procs :
        /\ pc[p] \in StartupPcs \cup {"startup_log"} => pass[p] = 0 /\ sleeps[p] = 0
        /\ pc[p] = "iter_log" => sleeps[p] = pass[p]
        /\ pc[p] \in PassPcs \cup {"warn_log", "after_pass", "sleep"} =>
              pass[p] >= 1 /\ sleeps[p] = pass[p] - 1
        /\ pass[p] >= 1 => sleeps[p] \in {pass[p] - 1, pass[p]}

\* C15: pass n+1 starts only from the top of the loop with no pass in flight,
\* and when it starts the number of sleeps that have returned equals n: each
\* pass, one that ended in a tolerated error included, is followed by exactly
\* one time.sleep before the next pass starts.
C15_OneSleepBetweenPasses == []C15_Inv /\ [][C15_Step]_vars

C15_Witness ==
    /\ pc[Main] = "discover"
    /\ pass[Main] = 3
    /\ sleeps[Main] = 2
    /\ warning_log[Main] = "Exception"
    /\ ~first_pass_error[Main]

\* the step of p on which its pass ends, no signal having been delivered
PassEnds(p) ==
    /\ signals' = 0
    /\ pc[p] \in PassPcs
    /\ pc'[p] \notin PassPcs

\* C16: when a pass ends, the advertizeWork calls it made are one per key of
\* the idle-match map, no two of them for the same glidein, each under the
\* request name equal to the glidein name.
C16_OnePublishPerKey ==
    [][\A p \in Procs :
          PassEnds(p) =>
              /\ CallNames(p)' = DOMAIN count_glideins_idle[p]
              /\ Cardinality(calls'[p]) = Cardinality(DOMAIN count_glideins_idle[p])
              /\ \A c \in calls'[p] : c.name = c.glidename]_vars

\* what of C16 the code does keep: a glidein is never published twice in a
\* pass, request names are unique and equal to the glidein names
C16_NamesUnique ==
    /\ \A p \in Procs :
          /\ pc[p] \in {"advertize", "adv_warn"} => cur[p].glidename \notin CallNames(p) \cup TodoNames(p)
          /\ CallNames(p) \cap TodoNames(p) = {}
          /\ \A c, d \in Requests(p) : c.name = d.name => c = d
          /\ \A c \in Requests(p) : c.name = c.glidename
    /\ [][\A p \in Procs :
             calls'[p] # calls[p] /\ calls'[p] # {} =>
                 /\ pc[p] = "advertize"
                 /\ cur[p].glidename \notin CallNames(p)
                 /\ calls'[p] = calls[p] \cup {cur[p]}]_vars

\* C17: in every state the steps that the delivery of SIGTERM or of SIGQUIT
\* to a process can take are exactly the steps that the delivery of SIGINT to
\* that process can take, so
\* the teardown and the exit outcome that follow are the same.
C17_SameAsSigint ==
    [][\A p \in Procs :
          Signalled(p) =>
              LET as_sigint == Deliver(p, "SIGINT")
              IN  \A sig \in SignalKinds \ {"SIGINT"} : Deliver(p, sig) <=> as_sigint]_vars

C17_Witness ==
    /\ signals = 1
    /\ pc[Main] = "done"
    /\ pass[Main] = 2
    /\ ExitCode(Main) = 0
    /\ retracts[Main] = 1
    /\ activity_log[Main] = "Deadvertize my ads"
    /\ \A sig \in SignalKinds : Handler(sig) = IntHandler

C18_Step ==
    \A p \in Procs :
        /\ retracts[p] >= 1 => calls'[p] = calls[p] /\ cur'[p] = cur[p]
        /\ pc[p] \in TeardownPcs \cup {"close", "done"} =>
              pc'[p] \in TeardownPcs \cup {"close", "done"}

C18_Inv ==
    \A p \in Procs :
        /\ retracts[p] >= 1 => pc[p] \in {"deadv_warn", "close", "done"}
        /\ pc[p] \in TeardownPcs \cup {"close", "done"} => todo[p] = {} /\ cur[p] = NoCall

\* C18: once deadvertizeAllWork has been called the process never calls
\* advertizeWork again: it is past the loop, no pass is in flight, and the
\* set of publish calls made no longer changes, whether the teardown was
\* entered by a signal, by a signal in the middle of a pass or by the first
\* pass's error.
C18_NoPublishAfterRetract == []C18_Inv /\ [][C18_Step]_vars

C18_Witness ==
    /\ pc[Main] = "done"
    /\ retracts[Main] = 1
    /\ signals = 1
    /\ pass[Main] = 2
    /\ Cardinality(calls[Main]) = 1
    /\ failed[Main] = {}
    /\ ExitCode(Main) = 0

C18_WitnessFatal ==
    /\ pc[Main] = "done"
    /\ retracts[Main] = 1
    /\ first_pass_error[Main]
    /\ calls[Main] # {}

\* C19: the lock handle is closed only after deadvertizeAllWork has been
\* called (and has returned or failed), so every Advertiser call, the
\* retract-all included, is made by a process that holds the lock; on the
\* fatal path the error is logged, then retract-all is called, then the
\* handle is closed, then the error is re-raised.
C19_AdvertiserCallsUnderLock ==
    \A p \in Procs :
        /\ pc[p] \in {"advertize", "deadvertize"} => fd[p] = "open" /\ lock_holder = p
        /\ pc[p] = "close" => retracts[p] = 1
        /\ pc[p] = "done" /\ first_pass_error[p] =>
              /\ warning_log[p] # "none"
              /\ retracts[p] = 1
              /\ fd[p] = "closed"

====
